---------------------------- MODULE Spec2Model ----------------------------
(***************************************************************************)
(* A model of src/src/diff.py: the comparator that reads the files "out1"  *)
(* and "out2", turns each into the set of its lines and prints the two     *)
(* one-sided set differences.                                              *)
(*                                                                         *)
(* A file's content is a sequence of characters; a line is a sequence of   *)
(* characters too.  One run of the script is the chain of actions          *)
(* Open1, Read1, Close1, Open2, Read2, Close2, Diff, Print1, Print2, Exit. *)
(* Between two runs the environment may leave the files alone (Rerun),     *)
(* exchange them (Swap) or change how often a file repeats its lines       *)
(* (Rewrite); `prev' remembers what the run before reported.               *)
(***************************************************************************)
EXTENDS Naturals, Integers, Sequences, FiniteSets, TLC

VARIABLES
    fs,        \* the working directory: file name -> [kind, data]
    pc,        \* the statement main() executes next
    handles,   \* the names of the files that are open
    out1set,   \* main's local out1set ({} until Read1 assigns it)
    out2set,   \* main's local out2set ({} until Read2 assigns it)
    diff,      \* main's local diff    ({} until Diff assigns it)
    stdout,    \* the lines written to standard output
    exitcode,  \* the process's exit code, -1 while it runs
    raised,    \* the exception that ended the run, "" when none
    prev       \* what the run before reported, and how the files changed since

vars == <<fs, pc, handles, out1set, out2set, diff, stdout, exitcode, raised, prev>>

---------------------------------------------------------------------------
(* Bounds and the alphabet.                                                *)

\* The longest file content, in characters.
MaxLen == 3

LF == "LF"
CR == "CR"

\* "a" stands for every character that is not a line boundary.  LF stands
\* for "\n" and for every other one-character boundary of str.splitlines()
\* (vertical tab, form feed, the file/group/record separators, NEL and the
\* Unicode line and paragraph separators), which it treats alike; CR is
\* "\r", the one boundary that pairs with a following "\n".
Chars == {"a", LF, CR}

LineBreaks == {LF, CR}

Contents == UNION {[1..n -> Chars] : n \in 0..MaxLen}

FileNames == {"out1", "out2"}

TextFile(c) == [kind |-> "text", data |-> c]

\* A file the open() call fails on (absent, a directory, no permission).
Missing == [kind |-> "missing", data |-> <<>>]

\* A file open() accepts and read() cannot decode as text.
Undecodable == [kind |-> "undecodable", data |-> <<>>]

Files == {Missing, Undecodable} \cup {TextFile(c) : c \in Contents}

---------------------------------------------------------------------------
(* The pure functions of lines 3 and 6: file.read(), str.splitlines(),     *)
(* set().                                                                  *)

Drop(s, n) == SubSeq(s, n + 1, Len(s))

\* file.read() of a file opened in text mode with the default newline=None:
\* universal newlines, "\r\n" and a lone "\r" are both read as "\n".
RECURSIVE read(_)
read(s) ==
    IF s = <<>> THEN <<>>
    ELSE IF Head(s) = CR /\ Len(s) >= 2 /\ s[2] = LF THEN <<LF>> \o read(Drop(s, 2))
    ELSE IF Head(s) = CR THEN <<LF>> \o read(Tail(s))
    ELSE <<Head(s)>> \o read(Tail(s))

\* str.split("\n") in place of str.splitlines(): the text after the last
\* boundary is a line even when it is empty.
RECURSIVE SplitKeepLast(_, _)
SplitKeepLast(s, cur) ==
    IF s = <<>> THEN <<cur>>
    ELSE IF Head(s) \in LineBreaks THEN <<cur>> \o SplitKeepLast(Tail(s), <<>>)
    ELSE SplitKeepLast(Tail(s), Append(cur, Head(s)))

\* str.splitlines() without keepends, `cur' being the line collected so far:
\* a boundary ends the line ("\r\n" counting as one boundary), and the text
\* after the last boundary is a line only when it is not empty.
RECURSIVE SplitFrom(_, _)
SplitFrom(s, cur) ==
    IF s = <<>> THEN (IF cur = <<>> THEN <<>> ELSE <<cur>>)
    ELSE IF Head(s) = CR /\ Len(s) >= 2 /\ s[2] = LF
         THEN <<cur>> \o SplitFrom(Drop(s, 2), <<>>)
    ELSE IF Head(s) \in LineBreaks THEN <<cur>> \o SplitFrom(Tail(s), <<>>)
    ELSE SplitFrom(Tail(s), Append(cur, Head(s)))

splitOnNewline(s) == SplitKeepLast(s, <<>>)

splitlines(s) == SplitFrom(s, <<>>)

\* How often each line occurs in a list.
Count(list, x) == Cardinality({i \in DOMAIN list : list[i] = x})

\* set(list): the distinct elements of a list.
set(list) == {list[i] : i \in DOMAIN list}

\* The lines that occur exactly once in the file, in place of its distinct
\* lines: what a collection that counts repetitions would give.
LineSetOnce(c) ==
    LET l == splitlines(read(c)) IN {l[i] : i \in {j \in DOMAIN l : Count(l, l[j]) = 1}}

\* set(file.read().splitlines())
LineSet(c) == set(splitlines(read(c)))

\* The orders in which iterating over (printing) a set can yield its elements.
Orders(S) == {o \in [1..Cardinality(S) -> S] : set(o) = S}

\* Whether contents c and d have the same distinct lines and repeat some
\* line a different number of times.
SameLinesOtherCounts(c, d) ==
    LET lc == splitlines(read(c))
        ld == splitlines(read(d))
    IN  /\ set(lc) = set(ld)
        /\ \E x \in set(lc) : Count(lc, x) # Count(ld, x)

\* The pairs of contents of which one can be rewritten to the other; the
\* pairs are enumerated into a set once, so that the environment's choice is
\* a lookup.
Rewrites ==
    {<<p[1], p[2]>> : p \in {q \in Contents \X Contents : SameLinesOtherCounts(q[1], q[2])}}

---------------------------------------------------------------------------
(* The state before the script starts: any two files, nothing read.        *)

FirstRun == [rel |-> "first", onlyA |-> {}, onlyB |-> {}]

\* A fresh interpreter process at the call main() of line 12.
Start ==
    /\ pc' = "open1"
    /\ handles' = {}
    /\ out1set' = {}
    /\ out2set' = {}
    /\ diff' = {}
    /\ stdout' = <<>>
    /\ exitcode' = -1
    /\ raised' = ""

Init ==
    /\ fs \in [FileNames -> Files]
    /\ pc = "open1"
    /\ handles = {}
    /\ out1set = {}
    /\ out2set = {}
    /\ diff = {}
    /\ stdout = <<>>
    /\ exitcode = -1
    /\ raised = ""
    /\ prev = FirstRun

---------------------------------------------------------------------------
(* The statements of main().                                               *)

\* An exception nothing catches: the traceback goes to standard error and
\* the interpreter exits with code 1.
Raise(exc) ==
    /\ pc' = "failed"
    /\ raised' = exc
    /\ exitcode' = 1

\* open(f) on entering the with statement.
Open(f, at, next) ==
    /\ pc = at
    /\ IF fs[f].kind = "missing"
       THEN Raise("FileNotFoundError") /\ UNCHANGED handles
       ELSE /\ handles' = handles \cup {f}
            /\ pc' = next
            /\ UNCHANGED <<raised, exitcode>>
    /\ UNCHANGED <<fs, out1set, out2set, diff, stdout, prev>>

\* with open("out1") as file:
Open1 == Open("out1", "open1", "read1")

\* with open("out2") as file:
Open2 == Open("out2", "open2", "read2")

\* out1set = set(file.read().splitlines()); when read() raises, the with
\* statement closes the file as the exception leaves its block.
Read1 ==
    /\ pc = "read1"
    /\ IF fs["out1"].kind = "undecodable"
       THEN /\ Raise("UnicodeDecodeError")
            /\ handles' = handles \ {"out1"}
            /\ UNCHANGED out1set
       ELSE /\ out1set' = LineSet(fs["out1"].data)
            /\ pc' = "close1"
            /\ UNCHANGED <<handles, raised, exitcode>>
    /\ UNCHANGED <<fs, out2set, diff, stdout, prev>>

\* Line 6 with the decoding errors ignored (errors="ignore"): an
\* undecodable out2 reads as an empty file and the run goes on.
Read2Lenient ==
    /\ pc = "read2"
    /\ out2set' = LineSet(fs["out2"].data)
    /\ pc' = "close2"
    /\ UNCHANGED <<fs, handles, out1set, diff, stdout, exitcode, raised, prev>>

\* out2set = set(file.read().splitlines())
Read2 ==
    /\ pc = "read2"
    /\ IF fs["out2"].kind = "undecodable"
       THEN /\ Raise("UnicodeDecodeError")
            /\ handles' = handles \ {"out2"}
            /\ UNCHANGED out2set
       ELSE /\ out2set' = LineSet(fs["out2"].data)
            /\ pc' = "close2"
            /\ UNCHANGED <<handles, raised, exitcode>>
    /\ UNCHANGED <<fs, out1set, diff, stdout, prev>>

\* Plain open() calls without the with statement: the end of the block
\* leaves the file open.
CloseLeak(f, at, next) ==
    /\ pc = at
    /\ pc' = next
    /\ UNCHANGED <<fs, handles, out1set, out2set, diff, stdout, exitcode, raised, prev>>

\* Leaving a with block closes its file.
Close(f, at, next) ==
    /\ pc = at
    /\ handles' = handles \ {f}
    /\ pc' = next
    /\ UNCHANGED <<fs, out1set, out2set, diff, stdout, exitcode, raised, prev>>

Close1 == Close("out1", "close1", "open2")

\* out2 opened for update and cut short: closing it leaves it empty.
Close2Truncating ==
    /\ pc = "close2"
    /\ handles' = handles \ {"out2"}
    /\ fs' = [fs EXCEPT !["out2"] = TextFile(<<>>)]
    /\ pc' = "diff"
    /\ UNCHANGED <<out1set, out2set, diff, stdout, exitcode, raised, prev>>

Close2 == Close("out2", "close2", "diff")

\* Line 8 followed by a print of the value it computes.
DiffPrinted ==
    /\ pc = "diff"
    /\ diff' = (out1set \ out2set) \cup (out2set \ out1set)
    /\ \E o \in Orders((out1set \ out2set) \cup (out2set \ out1set)) :
          stdout' = Append(stdout, [label |-> "diff:", elems |-> o])
    /\ pc' = "print1"
    /\ UNCHANGED <<fs, handles, out1set, out2set, exitcode, raised, prev>>

\* diff = out1set.symmetric_difference(out2set)
Diff ==
    /\ pc = "diff"
    /\ diff' = (out1set \ out2set) \cup (out2set \ out1set)
    /\ pc' = "print1"
    /\ UNCHANGED <<fs, handles, out1set, out2set, stdout, exitcode, raised, prev>>

\* print(label, s): one line, the label and the set's elements in the order
\* the set's iteration yields them, which no run fixes.
PrintLine(label, s, at, next) ==
    /\ pc = at
    /\ \E o \in Orders(s) : stdout' = Append(stdout, [label |-> label, elems |-> o])
    /\ pc' = next
    /\ UNCHANGED <<fs, handles, out1set, out2set, diff, exitcode, raised, prev>>

\* Line 9 with the operands of the subtraction exchanged.
Print1Swapped == PrintLine("out1 - out2:", out2set \ out1set, "print1", "print2")

\* Line 9 printing the symmetric difference line 8 computed.
Print1Diff == PrintLine("out1 - out2:", diff, "print1", "print2")

\* print("out1 - out2:", out1set - out2set)
Print1 == PrintLine("out1 - out2:", out1set \ out2set, "print1", "print2")

\* Line 10 as a copy of line 9 with only its label changed.
Print2Copied == PrintLine("out2 - out1:", out1set \ out2set, "print2", "exit")

\* Line 10 printing the symmetric difference line 8 computed.
Print2Diff == PrintLine("out2 - out1:", diff, "print2", "exit")

\* print("out2 - out1:", out2set - out1set)
Print2 == PrintLine("out2 - out1:", out2set \ out1set, "print2", "exit")

\* main() returns, the module ends, the interpreter exits with code 0.
Exit ==
    /\ pc = "exit"
    /\ pc' = "done"
    /\ exitcode' = 0
    /\ UNCHANGED <<fs, handles, out1set, out2set, diff, stdout, raised, prev>>

---------------------------------------------------------------------------
(* The environment, between two runs.                                      *)

\* The set a line of standard output shows.
Printed(i) == set(stdout[i].elems)

Report(rel) == [rel |-> rel, onlyA |-> Printed(1), onlyB |-> Printed(2)]

\* The script is run again on the unchanged files.
Rerun ==
    /\ pc = "done"
    /\ prev' = Report("same")
    /\ UNCHANGED fs
    /\ Start

\* The two files exchange their contents and the script is run again.
Swap ==
    /\ pc = "done"
    /\ prev' = Report("swap")
    /\ fs' = [f \in FileNames |-> IF f = "out1" THEN fs["out2"] ELSE fs["out1"]]
    /\ Start

\* File f is rewritten to a content with the same distinct lines, some line
\* repeated a different number of times, and the script is run again.
Rewrite(f) ==
    /\ pc = "done"
    /\ fs[f].kind = "text"
    /\ \E c \in Contents :
          /\ <<fs[f].data, c>> \in Rewrites
          /\ fs' = [fs EXCEPT ![f] = TextFile(c)]
    /\ prev' = Report(f)
    /\ Start

Rewrite1 == Rewrite("out1")

Rewrite2 == Rewrite("out2")

\* One statement of the script.
Step ==
    \/ Open1 \/ Read1 \/ Close1
    \/ Open2 \/ Read2 \/ Close2
    \/ Diff \/ Print1 \/ Print2 \/ Exit

Next == Step \/ Rerun \/ Swap \/ Rewrite1 \/ Rewrite2

Spec == Init /\ [][Next]_vars

---------------------------------------------------------------------------
(* Properties.                                                             *)

\* The line sets of the two files as line 3 and line 6 build them.
A == LineSet(fs["out1"].data)
B == LineSet(fs["out2"].data)

Readable(f) == fs[f].kind = "text"

AfterRead1 == {"close1", "open2", "read2", "close2", "diff", "print1", "print2", "exit", "done"}
AfterRead2 == {"close2", "diff", "print1", "print2", "exit", "done"}
AfterClose2 == {"diff", "print1", "print2", "exit", "done"}

Labels == <<"out1 - out2:", "out2 - out1:">>

\* C1: whenever both files are read, the set printed after "out1 - out2:" is
\* exactly A - B and the set printed after "out2 - out1:" is exactly B - A,
\* A and B being the sets of lines of out1 and of out2.
C1_PrintedDifferences ==
    /\ Len(stdout) >= 1 =>
          /\ stdout[1].label = "out1 - out2:"
          /\ Printed(1) = A \ B
    /\ Len(stdout) >= 2 =>
          /\ stdout[2].label = "out2 - out1:"
          /\ Printed(2) = B \ A
    /\ pc = "done" => Len(stdout) = 2

C1_Witness ==
    /\ pc = "done"
    /\ fs["out1"].data = <<LF, "a">>
    /\ fs["out2"].data = <<LF, "a", "a">>
    /\ Printed(1) = {<<"a">>}
    /\ Printed(2) = {<<"a", "a">>}

\* C2: when out1 or out2 cannot be opened or read, the run writes nothing to
\* standard output, never ends successfully, keeps a statement to execute
\* until it has failed, and fails with a non-zero exit code; in no state was
\* a line printed and is out2 still to be read.
C2_NoOutputOnFailure ==
    /\ (~Readable("out1") \/ ~Readable("out2")) =>
          /\ stdout = <<>>
          /\ pc # "done"
          /\ pc # "failed" => ENABLED Step
    /\ pc = "failed" =>
          /\ stdout = <<>>
          /\ exitcode # 0
          /\ raised # ""
          /\ ~Readable("out1") \/ ~Readable("out2")
    /\ stdout # <<>> => pc \in AfterClose2

C2_Witness ==
    /\ pc = "failed"
    /\ Readable("out1")
    /\ out1set # {}
    /\ fs["out2"] = Missing
    /\ stdout = <<>>
    /\ exitcode = 1

\* C3: the two reported sets and the shared lines cover exactly the lines of
\* both files: onlyA \cup onlyB \cup (A \cap B) = A \cup B.
C3_Cover ==
    pc = "done" => Printed(1) \cup Printed(2) \cup (A \cap B) = A \cup B

C3_Witness ==
    /\ pc = "done"
    /\ A \cap B # {}
    /\ Printed(1) # {}
    /\ Printed(2) # {}

\* C4: no line is in both reported differences, and neither reported set
\* holds a line the two files share.
C4_Disjoint ==
    pc = "done" =>
        /\ Printed(1) \cap Printed(2) = {}
        /\ Printed(1) \cap (A \cap B) = {}
        /\ Printed(2) \cap (A \cap B) = {}

C4_Witness ==
    /\ pc = "done"
    /\ A \cap B # {}
    /\ Printed(2) # {}
    /\ Printed(1) = {}

\* C5: a run on a file rewritten to the same distinct lines with other
\* repetition counts reports the same two sets as the run before; and the
\* LineSet of a file holds each line of the file, and nothing else.
C5_DuplicateInsensitive ==
    /\ (pc = "done" /\ prev.rel \in FileNames) =>
          /\ Printed(1) = prev.onlyA
          /\ Printed(2) = prev.onlyB
    /\ pc \in AfterRead1 =>
          LET l == splitlines(read(fs["out1"].data))
          IN  /\ \A i \in DOMAIN l : l[i] \in out1set
              /\ \A x \in out1set : Count(l, x) >= 1
    /\ pc \in AfterRead2 =>
          LET l == splitlines(read(fs["out2"].data))
          IN  /\ \A i \in DOMAIN l : l[i] \in out2set
              /\ \A x \in out2set : Count(l, x) >= 1

C5_Witness ==
    /\ pc = "done"
    /\ prev.rel = "out1"
    /\ fs["out1"].data = <<"a", LF, "a">>
    /\ Printed(1) = {<<"a">>}
    /\ prev.onlyA = {<<"a">>}

\* C6: a run with the two files exchanged reports as "out1 - out2" what the
\* run before reported as "out2 - out1", and the other way round.
C6_Symmetry ==
    (pc = "done" /\ prev.rel = "swap") =>
        /\ Printed(1) = prev.onlyB
        /\ Printed(2) = prev.onlyA

C6_Witness ==
    /\ pc = "done"
    /\ prev.rel = "swap"
    /\ Printed(1) # {}
    /\ Printed(2) # {}
    /\ prev.onlyA = Printed(2)

\* C7: a run whose files are both readable never fails and keeps a statement
\* to execute until it is done; standard output only ever holds the line
\* "out1 - out2:" followed by the line "out2 - out1:", and a finished run has
\* written exactly these two lines and exits with code 0.
C7_TwoLinesThenZero ==
    /\ Len(stdout) <= 2
    /\ \A i \in DOMAIN stdout : stdout[i].label = Labels[i]
    /\ pc = "done" => (Len(stdout) = 2 /\ exitcode = 0)
    /\ exitcode = 0 => pc = "done"
    /\ (Readable("out1") /\ Readable("out2")) =>
          /\ pc # "failed"
          /\ pc # "done" => ENABLED Step

C7_Witness ==
    /\ pc = "done"
    /\ prev.rel = "first"
    /\ exitcode = 0
    /\ Len(stdout) = 2
    /\ stdout[1].label = "out1 - out2:"
    /\ stdout[2].label = "out2 - out1:"

C9_OneHandle ==
    /\ Cardinality(handles) <= 1
    /\ pc \in {"read1", "close1"} <=> "out1" \in handles
    /\ pc \in {"read2", "close2"} <=> "out2" \in handles
    /\ pc = "close1" => out1set = A
    /\ pc = "close2" => out2set = B
    /\ stdout # <<>> => handles = {}
    /\ pc \in {"done", "failed"} => handles = {}

C9_Witness ==
    /\ pc = "failed"
    /\ raised = "UnicodeDecodeError"
    /\ fs["out2"] = Undecodable
    /\ handles = {}

EndsInLineBreak(c) == c # <<>> /\ c[Len(c)] \in LineBreaks

\* Content d is content c followed by one line terminator.
PlusTerminator(c, d) == d \in {c \o <<LF>>, c \o <<CR>>, c \o <<CR, LF>>}

\* C10: an empty file gives the empty LineSet; a non-empty content that does
\* not end in a line terminator gives the same LineSet with and without one
\* terminator after it, and two such files are reported as not differing.
C10_NoTrailingEmptyLine ==
    /\ (pc \in AfterRead1 /\ fs["out1"].data = <<>>) => out1set = {}
    /\ (pc \in AfterRead2 /\ fs["out2"].data = <<>>) => out2set = {}
    /\ ( /\ pc \in AfterRead2
         /\ \/ /\ fs["out1"].data # <<>>
               /\ ~EndsInLineBreak(fs["out1"].data)
               /\ PlusTerminator(fs["out1"].data, fs["out2"].data)
            \/ /\ fs["out2"].data # <<>>
               /\ ~EndsInLineBreak(fs["out2"].data)
               /\ PlusTerminator(fs["out2"].data, fs["out1"].data) ) =>
          /\ out1set = out2set
          /\ pc = "done" => (Printed(1) = {} /\ Printed(2) = {})

C10_Witness ==
    /\ pc = "done"
    /\ fs["out1"].data = <<LF, "a">>
    /\ fs["out2"].data = <<LF, "a", LF>>
    /\ out1set = {<<>>, <<"a">>}
    /\ Printed(1) = {}
    /\ Printed(2) = {}

====
